---- MODULE Spec2Model ----
(***************************************************************************)
(* twitch-autorecorder: the polling-and-capture supervisor.                *)
(*                                                                         *)
(* Two programs of the repository are modelled over one set of variables:  *)
(*   Spec          src/unnamed/part_000: the async loop                    *)
(*                 (getAndRecordProcessAsync / main, awaits the capture)   *)
(*   SpecPrune     the same loop over every startup log directory          *)
(*   SpecLive      the same loop with the scheduling of its event loop     *)
(*   SpecInterval  src/main.ts:147-250: the setInterval variant            *)
(*                 (getAndRecordProcess / main, does not await it)         *)
(*                                                                         *)
(* Time is Date.now() in milliseconds.  JavaScript runs one handler at a   *)
(* time, so every action is the code from one resumption point to the next *)
(* await (or to the end of the callback).                                  *)
(*                                                                         *)
(* Of the file system, readdirSync, statSync, unlinkSync and               *)
(* appendFileSync may throw.  Left out: the credential status tag of a log *)
(* line (AUTH_TOKEN), the day bucket of the watch log's file name, and the *)
(* 'error' events of spawn and of the download log's write stream.  The    *)
(* program's own log files are younger than the retention window for the   *)
(* whole of a bounded run, so a prune pass never deletes them.             *)
(***************************************************************************)
EXTENDS Integers, Sequences, FiniteSets

VARIABLES
  pc,         \* where the supervisor is suspended
  exitCode,   \* <<>> while the process runs, <<c>> once it has exited with c
  cause,      \* why the process exited ("" while it runs)
  now,        \* Date.now(), ms
  timer,      \* <<t>>: a timer is set and due at t; <<>>: none
  userName,   \* process.argv[2] supplied
  tools,      \* the commands `which` resolves
  envInterval,\* process.env.INTERVAL, in ms (0: unset, empty, "0" or NaN)
  webhook,    \* process.env.DISCORD_WEBHOOK_URL: "unset", "malformed", "valid"
  exitFile,   \* fs.existsSync(EXIT_FILE)
  logDir,     \* LOGDIR: the files present -> their mtimeMs
  watchLog,   \* the lines appended to the watch log, in order
  captures,   \* every capture spawned, in order: [url, out, dl]
  inflight,   \* capture processes spawned and not yet closed (indices of captures)
  closes,     \* every 'close' event handled, in order: [cap, code]
  sends,      \* the messages handed to webhookClient.send, in order
  probes,     \* number of streamlink invocations so far
  cycles,     \* number of cycles begun so far
  sleeps,     \* number of setTimeout sleeps begun so far
  cyc         \* what the current cycle has done so far (reset when a cycle begins)

vars == << pc, exitCode, cause, now, timer, userName, tools, envInterval, webhook,
           exitFile, logDir, watchLog, captures, inflight, closes, sends,
           probes, cycles, sleeps, cyc >>

----------------------------------------------------------------------------
(* Bounds of the model *)

MaxCycles == 2      \* cycles a run may begin
MaxFiles == 2       \* files in LOGDIR at startup

\* The resolution of the durations: half a second, in ms
Quantum == 1000 \div 2

----------------------------------------------------------------------------
(* Program constants *)

DEFAULT_INTERVAL == 55
RETENTION_DAYS == 3
MS_PER_DAY == 1000 * 60 * 60 * 24

\* INTERVAL * 1000: the delay given to setTimeout / setInterval, ms
INTERVAL_MS == IF envInterval # 0 THEN envInterval ELSE DEFAULT_INTERVAL * 1000

Files == 1..MaxFiles
\* How much longer than it must an await may take
Lags == { 0, Quantum }

\* The symbols of streamlink's output: a blank, a URL character, and the
\* text 'error: Unauthorized' taken as one symbol.
BLANK == " "
URLCH == "u"
UNAUTH == "error: Unauthorized"
Symbols == { BLANK, URLCH, UNAUTH }


----------------------------------------------------------------------------
(* Pure functions *)

\* String.prototype.includes('error: Unauthorized')
Includes(s, sym) == \E i \in 1..Len(s) : s[i] = sym

RECURSIVE TrimStart(_)
TrimStart(s) ==
  IF s # <<>> /\ Head(s) = BLANK THEN TrimStart(Tail(s)) ELSE s

RECURSIVE TrimEnd(_)
TrimEnd(s) ==
  IF s # <<>> /\ s[Len(s)] = BLANK THEN TrimEnd(SubSeq(s, 1, Len(s) - 1)) ELSE s

\* A trim that removes nothing
TrimNothing(s) == s

\* String.prototype.trim
Trim(s) == TrimEnd(TrimStart(s))

\* getDateTime(): the calendar second of the clock (YYYYMMDD_HHMM_SS)
getDateTime(t) == t \div 1000

\* getDateTimeShort(): the calendar minute of the clock (YYYYMMDD_HHMM)
getDateTimeShort(t) == t \div (60 * 1000)

\* The lines the program writes to the watch log.  code is <<>> where the
\* line carries none, <<c>> for an exit code c; a failure line of a capture
\* killed by a signal carries null, which is <<>> too.
Line(text, code) == [text |-> text, code |-> code]
ExitLine == Line("Exit file detected, aborting.", <<>>)
OfflineLine == Line("is offline.", <<>>)
OnlineLine == Line("is online! Starting download...", <<>>)
CompletedLine == Line("Download completed.", <<>>)
FailedLine(code) == Line("Download failed with exit code", code)

INVALID_MSG == "Twitch OAuth token is invalid. Please check your .env."
ONLINE_MSG == "is online! Starting download..."

\* One step of cleanOldLogs' forEach: stat, compare the age, unlink; an
\* exception of stat or unlink is caught and the file stays.  The code's
\* (now - mtimeMs) / MS_PER_DAY > 3 is a division of reals: over the
\* integers it is (now - mtimeMs) > 3 * MS_PER_DAY.
CleanOne(dir, f, t, faults) ==
  IF f \in faults THEN dir
  ELSE IF (t - dir[f]) > RETENTION_DAYS * MS_PER_DAY
       THEN [ g \in (DOMAIN dir) \ {f} |-> dir[g] ]
       ELSE dir

\* cleanOldLogs with the try around the whole loop: the first exception
\* ends the pass
RECURSIVE CleanEachAbort(_, _, _, _)
CleanEachAbort(dir, files, t, faults) ==
  IF files = <<>> \/ Head(files) \in faults THEN dir
  ELSE CleanEachAbort(CleanOne(dir, Head(files), t, faults), Tail(files), t, faults)

RECURSIVE CleanEach(_, _, _, _)
CleanEach(dir, files, t, faults) ==
  IF files = <<>> THEN dir
  ELSE CleanEach(CleanOne(dir, Head(files), t, faults), Tail(files), t, faults)

\* fs.readdirSync(LOGDIR): the files present, in directory order
Listing(dir) == SelectSeq([ i \in 1..MaxFiles |-> i ], LAMBDA i : i \in DOMAIN dir)

\* cleanOldLogs() once readdirSync has returned
cleanOldLogs(dir, t, faults) == CleanEach(dir, Listing(dir), t, faults)

----------------------------------------------------------------------------
(* The environment's inputs *)

\* process.env.INTERVAL * 1000: unset (the default applies) or half a second
IntervalEnv == { 0, Quantum }

WebhookEnv == { "unset", "malformed", "valid" }
REQUIRED_TOOLS == { "streamlink", "ffmpeg" }

\* mtimeMs of a file found in LOGDIR at startup (the clock starts at 0): one
\* ms beyond the retention window, exactly at it, and just written
MtimeChoices == { 0 - RETENTION_DAYS * MS_PER_DAY - 1, 0 - RETENTION_DAYS * MS_PER_DAY, 0 }

Dirs == [ Files -> MtimeChoices ]

StartDir ==
  [ f \in Files |-> IF f = 1 THEN 0 - RETENTION_DAYS * MS_PER_DAY - 1
                            ELSE 0 - RETENTION_DAYS * MS_PER_DAY ]

\* What streamlink may print: nothing, a blank line, a URL, a URL between
\* blanks, the unauthorized error
StdoutChoices ==
  { <<>>, <<BLANK>>, <<URLCH>>, <<BLANK, URLCH, BLANK>>, <<UNAUTH>> }

\* What execAsync(cmd) settles with: the exit status and the two streams
ProbeResults ==
  [ zero : BOOLEAN, stdout : StdoutChoices, stderr : { <<>>, <<UNAUTH>> } ]

\* The code of ffmpeg's 'close' event: <<c>>, or <<>> (null: killed by a signal)
CaptureCodes == { <<0>>, <<1>>, <<>> }

\* How long a capture runs: no time at all, one quantum, or longer
\* than the poll interval
CaptureDurations == Lags \cup { INTERVAL_MS + Quantum }

----------------------------------------------------------------------------
(* State *)

\* What a probe returned, as the cycle's record keeps it: the exit status,
\* whether the marker was on either stream, whether stdout was empty or
\* blanks only, and the trimmed stdout
Observed(r) ==
  [ zero |-> r.zero,
    marker |-> Includes(r.stdout, UNAUTH) \/ Includes(r.stderr, UNAUTH),
    blank |-> \A i \in 1..Len(r.stdout) : r.stdout[i] = BLANK,
    url |-> Trim(r.stdout) ]

\* The files of dir whose age at time t is beyond the retention window
Expired(dir, t) == { f \in DOMAIN dir : t - dir[f] > RETENTION_DAYS * MS_PER_DAY }

\* The record of a cycle that begins: whether the exit-signal file was there,
\* the expired files whose stat or unlink threw, whether the exit-file check was
\* reached, whether streamlink was started and whether a capture was in
\* flight then, what the probe returned (<<>> before it returns), how
\* webhookClient.send settled (<<>> while none has), and how long the watch
\* log, the sends and the captures were when the cycle began
NewCycle(faults, checked, probed) ==
  [ sawExit |-> exitFile, faults |-> faults, exitChecked |-> checked,
    probed |-> probed, busy |-> probed /\ inflight # {}, res |-> <<>>,
    sent |-> <<>>, logStart |-> Len(watchLog), sendStart |-> Len(sends),
    capStart |-> Len(captures) ]

\* The state once the module is loaded, for the resolvable commands among
\* toolsets, a startup directory among dirs, a webhook setting among hooks
\* and an INTERVAL among intervals
InitWith(toolsets, dirs, hooks, intervals) ==
  /\ pc = "startup"
  /\ exitCode = <<>>
  /\ cause = ""
  /\ now = 0
  /\ timer = <<>>
  /\ userName \in BOOLEAN
  /\ tools \in toolsets
  /\ envInterval \in intervals
  /\ webhook \in hooks
  /\ exitFile \in BOOLEAN
  /\ logDir \in dirs
  /\ watchLog = <<>>
  /\ captures = <<>>
  /\ inflight = {}
  /\ closes = <<>>
  /\ sends = <<>>
  /\ probes = 0
  /\ cycles = 0
  /\ sleeps = 0
  /\ cyc = NewCycle({}, FALSE, FALSE)

\* Every environment, over a directory that holds one expired file and files
\* exactly at the retention window
Init == InitWith(SUBSET REQUIRED_TOOLS, { StartDir }, WebhookEnv, IntervalEnv)

\* Every directory, under one environment
InitPrune == InitWith({ REQUIRED_TOOLS }, Dirs, { "valid" }, { Quantum })

env == << userName, tools, envInterval, webhook >>

----------------------------------------------------------------------------
(* Steps shared by the handlers *)

\* process.exit(code)
Exit(code, why) ==
  /\ pc' = "exited"
  /\ exitCode' = <<code>>
  /\ cause' = why
  /\ timer' = <<>>

\* An exception nothing catches (a rejected main(), a throwing event
\* handler): Node prints it and exits with code 1.
Crash == Exit(1, "uncaught")

\* checkCommandExists that takes every command for resolvable
checkCommandExistsAlways(cmd) == TRUE

\* checkCommandExists(cmd)
checkCommandExists(cmd) == cmd \in tools

\* The marker looked for in the try branch alone
UnauthorizedTryOnly(r) ==
  r.zero /\ (Includes(r.stdout, UNAUTH) \/ Includes(r.stderr, UNAUTH))

\* Unauthorized marker in what execAsync settled with: the try branch reads
\* stdout / stderr, the catch branch err.stdout / err.stderr
Unauthorized(r) ==
  IF r.zero
  THEN Includes(r.stdout, UNAUTH) \/ Includes(r.stderr, UNAUTH)
  ELSE (r.stdout # <<>> /\ Includes(r.stdout, UNAUTH))
       \/ (r.stderr # <<>> /\ Includes(r.stderr, UNAUTH))

\* How webhookClient.send settles: the message is delivered, or the promise
\* rejects (network error, HTTP error, deleted webhook)
SendOutcomes == { "delivered", "error" }

\* discord.msg without its try / catch: a rejection of webhookClient.send
\* reaches the caller
discordMsgNoCatch(outcome) ==
  IF outcome = "error" THEN "rejected" ELSE "resolved"

\* discord.msg once webhookClient.send has settled with `outcome`: the catch
\* warns on the console and the promise of discord.msg resolves
discordMsg(outcome) == "resolved"

\* main(): the loop body has returned; await the setTimeout
Sleep ==
  /\ pc' = "sleep"
  /\ sleeps' = sleeps + 1
  /\ timer' = << now' + INTERVAL_MS >>
  /\ UNCHANGED << exitCode, cause >>

\* spawn('ffmpeg', ['-i', url, '-c', 'copy', outFile]) and the write stream
\* of its download log, at time t; then wait for 'close'
Spawn(t, url) ==
  /\ captures' = Append(captures,
        [ url |-> url, out |-> getDateTime(t), dl |-> getDateTimeShort(t) ])
  /\ inflight' = inflight \cup { Len(captures) + 1 }
  /\ pc' = "capture"
  /\ UNCHANGED << exitCode, cause, sleeps, timer >>

\* The cycle with the exit-file check moved ahead of cleanOldLogs: a cycle
\* that finds the file exits without pruning
BeginCycleCheckFirst(t, rdOK, faults, apOK) ==
  /\ cycles' = cycles + 1
  /\ UNCHANGED << captures, inflight, closes, sends, sleeps >>
  /\ IF exitFile
     THEN /\ cyc' = NewCycle({}, TRUE, FALSE)
          /\ IF apOK
             THEN watchLog' = Append(watchLog, ExitLine) /\ Exit(0, "exitfile")
             ELSE UNCHANGED watchLog /\ Crash
          /\ UNCHANGED << logDir, probes >>
     ELSE IF ~rdOK
     THEN /\ Crash
          /\ cyc' = NewCycle({}, TRUE, FALSE)
          /\ UNCHANGED << logDir, watchLog, probes >>
     ELSE /\ logDir' = cleanOldLogs(logDir, t, faults)
          /\ cyc' = NewCycle(faults \cap Expired(logDir, t), TRUE, TRUE)
          /\ pc' = "probe"
          /\ timer' = <<>>
          /\ probes' = probes + 1
          /\ UNCHANGED << exitCode, cause, watchLog >>

\* getAndRecordProcessAsync() up to its first await, at time t: cleanOldLogs,
\* the exit-file check, and the launch of streamlink.
\*   rdOK: readdirSync returns; faults: the files whose stat or unlink throws;
\*   apOK: appendFileSync returns
BeginCycle(t, rdOK, faults, apOK) ==
  /\ cycles' = cycles + 1
  /\ UNCHANGED << captures, inflight, closes, sends, sleeps >>
  /\ IF ~rdOK
     THEN /\ Crash
          /\ cyc' = NewCycle({}, FALSE, FALSE)
          /\ UNCHANGED << logDir, watchLog, probes >>
     ELSE /\ logDir' = cleanOldLogs(logDir, t, faults)
          /\ IF exitFile
             THEN /\ cyc' = NewCycle(faults \cap Expired(logDir, t), TRUE, FALSE)
                  /\ IF apOK
                     THEN watchLog' = Append(watchLog, ExitLine) /\ Exit(0, "exitfile")
                     ELSE UNCHANGED watchLog /\ Crash
                  /\ UNCHANGED probes
             ELSE /\ cyc' = NewCycle(faults \cap Expired(logDir, t), TRUE, TRUE)
                  /\ pc' = "probe"
                  /\ timer' = <<>>
                  /\ probes' = probes + 1
                  /\ UNCHANGED << exitCode, cause, watchLog >>

----------------------------------------------------------------------------
(* src/unnamed/part_000: the handlers of the async loop *)

\* A top level that starts streamlink to test the credential before it calls
\* main(): no cycle has begun when that probe is outstanding
StartupProbesFirst ==
  /\ pc = "startup"
  /\ UNCHANGED << now, env, exitFile >>
  /\ IF ~userName \/ ~checkCommandExists("streamlink") \/ ~checkCommandExists("ffmpeg")
     THEN /\ Exit(1, IF ~userName THEN "usage" ELSE "tool")
          /\ UNCHANGED << logDir, watchLog, captures, inflight, closes, sends,
                          probes, cycles, sleeps, cyc >>
     ELSE /\ pc' = "probe"
          /\ probes' = probes + 1
          /\ cyc' = NewCycle({}, FALSE, TRUE)
          /\ UNCHANGED << exitCode, cause, timer, logDir, watchLog, captures,
                          inflight, closes, sends, cycles, sleeps >>

\* The module's top level: the USER_NAME check, the two tool checks, main()
\* and the first cycle up to its await.
Startup ==
  /\ pc = "startup"
  /\ UNCHANGED << now, env, exitFile >>
  /\ IF ~userName \/ ~checkCommandExists("streamlink") \/ ~checkCommandExists("ffmpeg")
     THEN /\ Exit(1, IF ~userName THEN "usage" ELSE "tool")
          /\ UNCHANGED << logDir, watchLog, captures, inflight, closes, sends,
                          probes, cycles, sleeps, cyc >>
     ELSE \E rdOK \in BOOLEAN, faults \in SUBSET (DOMAIN logDir), apOK \in BOOLEAN :
            BeginCycle(now, rdOK, faults, apOK)

\* execAsync(cmd) settles with r after d ms: the rest of the cycle up to the
\* next await (webhookClient.send, the capture's 'close', or the sleep).
ProbeReturns ==
  /\ pc = "probe"
  /\ \E r \in ProbeResults, d \in Lags, apOK \in BOOLEAN :
       /\ now' = now + d
       /\ cyc' = [ cyc EXCEPT !.res = << Observed(r) >> ]
       /\ UNCHANGED << env, exitFile, logDir, closes, probes, cycles >>
       /\ IF Unauthorized(r)
          THEN \* discord.msg(...); console.error(...); process.exit(1)
               /\ UNCHANGED << watchLog, captures, inflight, sleeps >>
               /\ IF webhook = "valid"
                  THEN /\ sends' = Append(sends, INVALID_MSG)
                       /\ pc' = "notifyInvalid"
                       /\ UNCHANGED << exitCode, cause, timer >>
                  ELSE /\ Exit(1, "credential")
                       /\ UNCHANGED sends
          ELSE IF ~r.zero
          THEN \* catch: log.watch('... is offline.'); return
               /\ UNCHANGED << captures, inflight, sends >>
               /\ IF apOK
                  THEN watchLog' = Append(watchLog, OfflineLine) /\ Sleep
                  ELSE UNCHANGED << watchLog, sleeps >> /\ Crash
          ELSE IF Trim(r.stdout) # <<>>
          THEN \* log.watch(startMessage); await discord.msg(startMessage); ...
               IF ~apOK
               THEN /\ Crash
                    /\ UNCHANGED << watchLog, captures, inflight, sends, sleeps >>
               ELSE /\ watchLog' = Append(watchLog, OnlineLine)
                    /\ IF webhook = "valid"
                       THEN /\ sends' = Append(sends, ONLINE_MSG)
                            /\ pc' = "notifyOnline"
                            /\ UNCHANGED << exitCode, cause, timer, captures, inflight, sleeps >>
                       ELSE /\ Spawn(now', Trim(r.stdout))
                            /\ UNCHANGED sends
          ELSE \* url is empty: the function returns
               /\ UNCHANGED << watchLog, captures, inflight, sends >>
               /\ Sleep

\* webhookClient.send settles after the invalid-credential message:
\* console.error, process.exit(1)
NotifyInvalidReturns ==
  /\ pc = "notifyInvalid"
  /\ UNCHANGED now
  /\ \E outcome \in SendOutcomes :
       /\ cyc' = [ cyc EXCEPT !.sent = << outcome >> ]
       /\ IF discordMsg(outcome) = "rejected" THEN Crash ELSE Exit(1, "credential")
  /\ UNCHANGED << env, exitFile, logDir, watchLog, captures, inflight, closes,
                  sends, probes, cycles, sleeps >>

\* webhookClient.send settles after the online message: the capture starts
NotifyOnlineReturns ==
  /\ pc = "notifyOnline"
  /\ UNCHANGED now
  /\ \E outcome \in SendOutcomes :
       /\ cyc' = [ cyc EXCEPT !.sent = << outcome >> ]
       /\ IF discordMsg(outcome) = "rejected"
          THEN Crash /\ UNCHANGED << captures, inflight, sleeps >>
          ELSE Spawn(now', cyc.res[1].url)
  /\ UNCHANGED << env, exitFile, logDir, watchLog, closes, sends, probes, cycles >>

\* The outcome line of ffmpeg's 'close' handler
OutcomeLine(code) == IF code = <<0>> THEN CompletedLine ELSE FailedLine(code)

\* ffmpeg's 'close' event with `code`, d ms after the spawn: the outcome
\* line, resolve(), the return to main() and the start of the sleep
CaptureClose ==
  /\ pc = "capture"
  /\ \E i \in inflight, code \in CaptureCodes, d \in CaptureDurations, apOK \in BOOLEAN :
       /\ now' = now + d
       /\ inflight' = inflight \ {i}
       /\ closes' = Append(closes, [ cap |-> i, code |-> code ])
       /\ IF apOK
          THEN watchLog' = Append(watchLog, OutcomeLine(code)) /\ Sleep
          ELSE UNCHANGED << watchLog, sleeps >> /\ Crash
  /\ UNCHANGED << env, exitFile, logDir, captures, sends, probes, cycles, cyc >>

\* The setTimeout of main() fires, INTERVAL * 1000 ms after it was set: the
\* next cycle begins.  A run begins MaxCycles cycles, and one more to find
\* the exit-signal file.
WakeUp ==
  /\ pc = "sleep"
  /\ cycles < MaxCycles + (IF exitFile THEN 1 ELSE 0)
  /\ now' = timer[1]
  /\ UNCHANGED << env, exitFile >>
  /\ \E rdOK \in BOOLEAN, faults \in SUBSET (DOMAIN logDir), apOK \in BOOLEAN :
       BeginCycle(now', rdOK, faults, apOK)

\* Someone creates the exit-signal file while the process runs
CreateExitFile ==
  /\ pc \notin { "startup", "exited" }
  /\ ~exitFile
  /\ exitFile' = TRUE
  /\ UNCHANGED << pc, exitCode, cause, now, timer, env, logDir, watchLog, captures,
                  inflight, closes, sends, probes, cycles, sleeps, cyc >>

Next ==
  \/ Startup
  \/ ProbeReturns
  \/ NotifyInvalidReturns
  \/ NotifyOnlineReturns
  \/ CaptureClose
  \/ WakeUp
  \/ CreateExitFile

Spec == Init /\ [][Next]_vars

\* The scheduling of the async loop: the module's top level runs; streamlink,
\* webhookClient.send and ffmpeg finish; the timer of setTimeout fires.
\* Nobody is bound to create the exit-signal file.
Fairness ==
  /\ WF_vars(Startup)
  /\ WF_vars(ProbeReturns)
  /\ WF_vars(NotifyInvalidReturns)
  /\ WF_vars(NotifyOnlineReturns)
  /\ WF_vars(CaptureClose)
  /\ WF_vars(WakeUp)

\* The async loop with its scheduling, started with both tools resolvable
InitLive == InitWith({ REQUIRED_TOOLS }, { StartDir }, WebhookEnv, IntervalEnv)

SpecLive == InitLive /\ [][Next]_vars /\ Fairness

\* The same program over every startup directory
SpecPrune == InitPrune /\ [][Next]_vars

----------------------------------------------------------------------------
(* src/main.ts:147-250: the handlers of the setInterval variant *)

\* The variant words its log lines differently ('exit file detected,
\* aborting..', 'is online! downloading..', 'Download complete.', 'Download
\* failed with code N.'); each is written where the async loop writes its
\* own, and is kept here as that line.

\* The timer of setInterval stays set while the process runs
Armed ==
  /\ pc' = "armed"
  /\ UNCHANGED << exitCode, cause >>

\* getAndRecordProcess(), called at time t: cleanOldLogs, the exit-file
\* check, execSync(streamlink) settling with r after d ms, the log line and
\* the spawn of ffmpeg, whose 'close' is not awaited.
\*   rdOK: readdirSync returns; faults: the files whose stat or unlink throws;
\*   apOK: appendFileSync returns
getAndRecordProcess(t, rdOK, faults, apOK, r, d) ==
  /\ cycles' = cycles + 1
  /\ UNCHANGED << closes, sends, sleeps >>
  /\ IF ~rdOK
     THEN /\ Crash
          /\ now' = t
          /\ cyc' = NewCycle({}, FALSE, FALSE)
          /\ UNCHANGED << logDir, watchLog, probes, captures, inflight >>
     ELSE /\ logDir' = cleanOldLogs(logDir, t, faults)
          /\ IF exitFile
             THEN /\ now' = t
                  /\ cyc' = NewCycle(faults \cap Expired(logDir, t), TRUE, FALSE)
                  /\ IF apOK
                     THEN watchLog' = Append(watchLog, ExitLine) /\ Exit(0, "exitfile")
                     ELSE UNCHANGED watchLog /\ Crash
                  /\ UNCHANGED << probes, captures, inflight >>
             ELSE /\ now' = t + d
                  /\ probes' = probes + 1
                  /\ cyc' = [ NewCycle(faults \cap Expired(logDir, t), TRUE, TRUE)
                                EXCEPT !.res = << Observed(r) >> ]
                  /\ IF ~apOK /\ (~r.zero \/ Trim(r.stdout) # <<>>)
                     THEN \* the log line of either outcome throws
                          /\ Crash
                          /\ UNCHANGED << watchLog, captures, inflight >>
                     ELSE IF ~r.zero
                     THEN \* execSync throws: log('... is offline.'); return
                          /\ watchLog' = Append(watchLog, OfflineLine)
                          /\ Armed
                          /\ UNCHANGED << captures, inflight >>
                     ELSE IF Trim(r.stdout) # <<>>
                     THEN \* log('... is online! downloading..'); spawn; return
                          /\ watchLog' = Append(watchLog, OnlineLine)
                          /\ captures' = Append(captures,
                                [ url |-> Trim(r.stdout), out |-> getDateTime(now'),
                                  dl |-> getDateTimeShort(now') ])
                          /\ inflight' = inflight \cup { Len(captures) + 1 }
                          /\ Armed
                     ELSE /\ Armed
                          /\ UNCHANGED << watchLog, captures, inflight >>

\* The module's top level: the USER_NAME check, then main(): the first call
\* of getAndRecordProcess and setInterval
StartupInterval ==
  /\ pc = "startup"
  /\ UNCHANGED << env, exitFile >>
  /\ IF ~userName
     THEN /\ Exit(1, "usage")
          /\ UNCHANGED << now, logDir, watchLog, captures, inflight, closes, sends,
                          probes, cycles, sleeps, cyc >>
     ELSE /\ \E rdOK \in BOOLEAN, faults \in SUBSET (DOMAIN logDir), apOK \in BOOLEAN,
                r \in ProbeResults, d \in Lags :
                getAndRecordProcess(now, rdOK, faults, apOK, r, d)
          /\ IF pc' = "exited" THEN TRUE ELSE timer' = << now' + INTERVAL_MS >>

\* The timer of setInterval fires (late when execSync held the thread beyond
\* its due time) and is set again
TimerFires ==
  /\ pc = "armed"
  /\ cycles < MaxCycles
  /\ UNCHANGED << env, exitFile >>
  /\ LET t == IF now > timer[1] THEN now ELSE timer[1]
     IN /\ \E rdOK \in BOOLEAN, faults \in SUBSET (DOMAIN logDir), apOK \in BOOLEAN,
              r \in ProbeResults, d \in Lags :
              getAndRecordProcess(t, rdOK, faults, apOK, r, d)
        /\ IF pc' = "exited" THEN TRUE ELSE timer' = << t + INTERVAL_MS >>

\* ffmpeg's 'close' event of one of the captures in flight, with `code`,
\* before the timer is due: the outcome line
CaptureCloseInterval ==
  /\ pc = "armed"
  /\ \E i \in inflight, code \in CaptureCodes, d \in Lags, apOK \in BOOLEAN :
       /\ now + d <= timer[1]
       /\ now' = now + d
       /\ inflight' = inflight \ {i}
       /\ closes' = Append(closes, [ cap |-> i, code |-> code ])
       /\ IF apOK
          THEN watchLog' = Append(watchLog, OutcomeLine(code)) /\ Armed /\ UNCHANGED timer
          ELSE UNCHANGED watchLog /\ Crash
  /\ UNCHANGED << env, exitFile, logDir, captures, sends, probes, cycles, sleeps, cyc >>

NextInterval ==
  \/ StartupInterval
  \/ TimerFires
  \/ CaptureCloseInterval
  \/ CreateExitFile

\* Every environment that the variant reads (it has no webhook and checks
\* no tools)
InitInterval == InitWith({ REQUIRED_TOOLS }, { StartDir }, { "unset" }, IntervalEnv)

SpecInterval == InitInterval /\ [][NextInterval]_vars

----------------------------------------------------------------------------
(* The download logs *)

\* fs.createWriteStream(path) of capture i over a file that holds `content`
\* (the captures whose diagnostics are in it): no flags are given, so the
\* file is opened with 'w' and truncated, and ffmpeg's stderr is piped into it
createWriteStream(content, i) == << i >>

\* The download log of minute m after the captures spawned so far: the
\* captures whose diagnostics the file holds (<<>>: no such file)
DownloadLog(m) ==
  LET file[k \in 0..Len(captures)] ==
        IF k = 0 THEN <<>>
        ELSE IF captures[k].dl = m THEN createWriteStream(file[k - 1], k)
        ELSE file[k - 1]
  IN  file[Len(captures)]

----------------------------------------------------------------------------
(* What the claims read off a state *)

\* The watch-log lines, the sends and the captures of the current cycle
CycleLines == SubSeq(watchLog, cyc.logStart + 1, Len(watchLog))
CycleSends == SubSeq(sends, cyc.sendStart + 1, Len(sends))
CycleCaptures == Len(captures) - cyc.capStart

\* The outcome of the current cycle's probe, once it has returned
Returned == cyc.res # <<>>
CredentialInvalid == Returned /\ cyc.res[1].marker
Offline == Returned /\ ~cyc.res[1].marker /\ ~cyc.res[1].zero
Live == Returned /\ ~cyc.res[1].marker /\ cyc.res[1].zero /\ cyc.res[1].url # <<>>

\* The process died of an exception nothing caught
Uncaught == pc = "exited" /\ cause = "uncaught"

----------------------------------------------------------------------------
(* C1 *)

\* C1: while the supervisor runs, at most one capture process is in flight
\* and streamlink has not been started while a capture had not yet closed.
\* The async loop keeps it (Spec); the setInterval variant does not
\* (SpecInterval): its timer fires while a capture is still running.
C1_AtMostOneCapture ==
  pc # "exited" => (Cardinality(inflight) <= 1 /\ ~cyc.busy)

----------------------------------------------------------------------------
(* C2 *)

\* C2: a cycle that begins while the exit-signal file exists ends the
\* process with exit code 0 in that cycle, with no probe, no capture and no
\* notification.  An exception of readdirSync or of appendFileSync ends the
\* process with code 1 instead.
C2_ExitFileTerminates ==
  (cycles > 0 /\ cyc.sawExit) =>
     /\ pc = "exited" /\ exitCode = <<0>>
     /\ ~cyc.probed /\ CycleCaptures = 0 /\ CycleSends = <<>>

\* What holds of such a cycle whatever the file system does: it ends the
\* process without a probe, with code 0 unless an exception went uncaught
ExitFileCycleEndsProcess ==
  (cycles > 0 /\ cyc.sawExit) =>
     /\ pc = "exited"
     /\ ~Uncaught => (exitCode = <<0>> /\ CycleLines = << ExitLine >>)
     /\ ~cyc.probed /\ CycleCaptures = 0 /\ CycleSends = <<>>

----------------------------------------------------------------------------
(* C3 *)

\* C3: once the probe has returned output with the unauthorized marker, with
\* a zero or a non-zero exit status, the process is exiting with code 1:
\* it starts no capture and no further probe, and where the webhook is
\* usable the cycle's sends are exactly the invalid-credential message,
\* handed to the webhook before the exit; otherwise nothing is sent.
C3_UnauthorizedTerminates ==
  CredentialInvalid =>
     /\ pc \in { "notifyInvalid", "exited" }
     /\ pc = "exited" => (exitCode = <<1>> /\ cause = "credential")
     /\ pc = "notifyInvalid" => webhook = "valid"
     /\ CycleCaptures = 0 /\ inflight = {}
     /\ probes = cycles /\ CycleLines = <<>>
     /\ CycleSends = IF webhook = "valid" THEN << INVALID_MSG >> ELSE <<>>

\* The marker came with a non-zero exit status, the webhook is usable, and
\* the process has exited after its one notification
C3_Witness ==
  /\ CredentialInvalid /\ ~cyc.res[1].zero
  /\ webhook = "valid" /\ pc = "exited" /\ exitCode = <<1>>
  /\ CycleSends = << INVALID_MSG >>

----------------------------------------------------------------------------
(* C4 *)

\* C4: a cycle whose probe returned Offline spawns no capture, writes
\* exactly one watch-log line, the offline line, and goes to sleep.  An
\* exception of appendFileSync leaves no line and ends the process.
C4_OfflineCycle ==
  Offline => (pc = "sleep" /\ CycleLines = << OfflineLine >> /\ CycleCaptures = 0)

\* What holds of an Offline cycle whatever the file system does
OfflineCycleUnlessUncaught ==
  Offline =>
     /\ CycleCaptures = 0 /\ CycleSends = <<>>
     /\ IF Uncaught THEN CycleLines = <<>>
        ELSE pc = "sleep" /\ CycleLines = << OfflineLine >>

----------------------------------------------------------------------------
(* C5 *)

\* C5: a cycle whose probe returned Live spawns exactly one capture, and of
\* any two consecutive captures of a run the later one has the strictly
\* greater second timestamp in its output path.  With INTERVAL below one
\* second two captures start within one second.
C5_TimestampsIncrease ==
  /\ (Live /\ pc \in { "capture", "sleep" }) => CycleCaptures = 1
  /\ (Live /\ pc = "notifyOnline") => CycleCaptures = 0
  /\ \A i \in 1..(Len(captures) - 1) : captures[i].out < captures[i + 1].out

\* The same with the default INTERVAL of 55 seconds
TimestampsIncreaseByDefault ==
  envInterval = 0 => C5_TimestampsIncrease

----------------------------------------------------------------------------
(* C6 *)

\* The outcome line the claim expects for the exit code of a 'close' event
ExpectedOutcome(code) ==
  IF code = <<0>> THEN [ text |-> "Download completed.", code |-> <<>> ]
  ELSE [ text |-> "Download failed with exit code", code |-> code ]

\* C6: once the capture of a cycle has closed, the cycle's watch-log lines
\* are the online line and then the one outcome line of its exit code, and
\* the supervisor sleeps, whatever the exit code.  An exception of
\* appendFileSync in the 'close' handler leaves no outcome line and ends
\* the process.
C6_OutcomeLine ==
  (CycleCaptures = 1 /\ inflight = {}) =>
     /\ pc = "sleep"
     /\ closes # <<>>
     /\ CycleLines = << OnlineLine, ExpectedOutcome(closes[Len(closes)].code) >>

\* What holds once the capture has closed whatever the file system does
OutcomeLineUnlessUncaught ==
  (CycleCaptures = 1 /\ inflight = {}) =>
     /\ closes # <<>> /\ closes[Len(closes)].cap = Len(captures)
     /\ IF Uncaught THEN CycleLines = << OnlineLine >>
        ELSE /\ pc = "sleep"
             /\ CycleLines = << OnlineLine, ExpectedOutcome(closes[Len(closes)].code) >>

----------------------------------------------------------------------------
(* C7 *)

\* C7: the process exits with code 0 only after a cycle saw the exit-signal
\* file, and with code 1 only for a missing channel argument, a missing
\* tool or an invalid credential; nothing else ends it.  An exception of
\* readdirSync or of appendFileSync ends it with code 1.
C7_TerminationCauses ==
  pc = "exited" =>
     \/ exitCode = <<0>> /\ cycles > 0 /\ cyc.sawExit /\ cyc.exitChecked
     \/ /\ exitCode = <<1>>
        /\ \/ ~userName
           \/ tools # REQUIRED_TOOLS
           \/ CredentialInvalid

\* The same with the uncaught exceptions named as a fourth cause
TerminationCausesWithUncaught ==
  pc = "exited" =>
     \/ exitCode = <<0>> /\ cycles > 0 /\ cyc.sawExit /\ cyc.exitChecked
     \/ /\ exitCode = <<1>>
        /\ \/ ~userName
           \/ tools # REQUIRED_TOOLS
           \/ CredentialInvalid
           \/ cause = "uncaught"

----------------------------------------------------------------------------
(* C8 *)

\* C8: a prune pass, run at the time of the step, removes from LOGDIR
\* exactly the files older than the retention window whose stat and unlink
\* did not throw; every file at or within the window, and every file whose
\* stat or unlink threw, stays with its mtime; and the cycle goes on to the
\* exit-file check, unless readdirSync itself threw.
C8_PrunePass ==
  [][ cycles' = cycles + 1
        => IF cyc'.exitChecked
           THEN /\ DOMAIN logDir' =
                     { f \in DOMAIN logDir :
                         (now' - logDir[f] <= RETENTION_DAYS * MS_PER_DAY)
                           \/ f \in cyc'.faults }
                /\ \A f \in DOMAIN logDir' : logDir'[f] = logDir[f]
           ELSE \* the listing itself threw: nothing was examined
                Uncaught' /\ cyc'.faults = {} /\ logDir' = logDir ]_vars

\* A pass in which the stat or unlink of one expired file threw, another file
\* was deleted, and the cycle went on to the probe
C8_Witness ==
  /\ pc = "probe"
  /\ cyc.faults # {} /\ cyc.faults \subseteq DOMAIN logDir
  /\ DOMAIN logDir # Files

----------------------------------------------------------------------------
(* C9 *)

\* The outcome lines of the watch log
OutcomeLines ==
  SelectSeq(watchLog, LAMBDA l : l.text \in { "Download completed.", "Download failed with exit code" })

\* C9: the process exits on the exit signal (code 0) only when no capture
\* is in flight: every capture spawned has closed and has its outcome line,
\* and the cycle that exits has issued no probe.  The setInterval variant
\* exits from its timer while a capture is running.
C9_CaptureNotAbandoned ==
  (pc = "exited" /\ exitCode = <<0>>) =>
     /\ inflight = {}
     /\ Len(closes) = Len(captures)
     /\ Len(OutcomeLines) = Len(closes)
     /\ ~cyc.probed

----------------------------------------------------------------------------
(* C10 *)

\* C10: without a channel argument, or with streamlink or ffmpeg not
\* resolvable, no cycle begins: no prune, no exit-file check, no probe, no
\* capture, no notification, no log line; the process exits with code 1.
C10_Preconditions ==
  (~userName \/ tools # REQUIRED_TOOLS) =>
     /\ pc \in { "startup", "exited" }
     /\ pc = "exited" => exitCode = <<1>>
     /\ cycles = 0 /\ ~cyc.exitChecked /\ logDir = StartDir
     /\ probes = 0 /\ captures = <<>> /\ sends = <<>> /\ watchLog = <<>>

\* ffmpeg alone is missing, the exit-signal file is present, and the process
\* has exited with code 1
C10_Witness ==
  /\ userName /\ tools = { "streamlink" } /\ exitFile
  /\ pc = "exited" /\ exitCode = <<1>>

----------------------------------------------------------------------------
(* C11 *)

\* C11: once the probe of a cycle has returned and no notification is being
\* awaited, where the supervisor is, the cycle's watch-log lines, its capture
\* and the exit code are those fixed by the probe result, the capture's exit
\* code and the file system alone: the same with the message delivered, with
\* webhookClient.send rejecting, with a malformed webhook URL and with none.
C11_NotifierNeutral ==
  (Returned /\ pc \notin { "notifyOnline", "notifyInvalid" }) =>
     LET res == cyc.res[1]
         last == Len(captures)
     IN  IF res.marker
         THEN /\ pc = "exited" /\ exitCode = <<1>>
              /\ CycleLines = <<>> /\ CycleCaptures = 0
         ELSE IF ~res.zero
         THEN /\ CycleCaptures = 0
              /\ \/ pc = "sleep" /\ exitCode = <<>> /\ CycleLines = << OfflineLine >>
                 \/ Uncaught /\ exitCode = <<1>> /\ CycleLines = <<>>
         ELSE IF res.url = <<>>
         THEN pc = "sleep" /\ exitCode = <<>> /\ CycleLines = <<>> /\ CycleCaptures = 0
         ELSE \/ \* the append of the online line threw
                 Uncaught /\ exitCode = <<1>> /\ CycleLines = <<>> /\ CycleCaptures = 0
              \/ /\ CycleCaptures = 1 /\ captures[last].url = res.url
                 /\ \/ /\ pc = "capture" /\ exitCode = <<>> /\ inflight = { last }
                       /\ CycleLines = << OnlineLine >>
                    \/ /\ pc = "sleep" /\ exitCode = <<>> /\ inflight = {}
                       /\ CycleLines = << OnlineLine, OutcomeLine(closes[Len(closes)].code) >>
                    \/ \* the append of the outcome line threw
                       /\ Uncaught /\ exitCode = <<1>> /\ inflight = {}
                       /\ CycleLines = << OnlineLine >>

\* A Live cycle whose online notification was rejected by the webhook: the
\* capture has run and closed and the supervisor sleeps
C11_Witness ==
  /\ Live /\ webhook = "valid" /\ cyc.sent = << "error" >>
  /\ pc = "sleep" /\ CycleCaptures = 1 /\ Len(CycleLines) = 2

\* The same cycle with a malformed webhook URL and with no webhook: nothing is
\* handed to the webhook and the capture has run and closed all the same
NotifierUnusableCycle ==
  /\ Live /\ webhook \in { "malformed", "unset" } /\ CycleSends = <<>>
  /\ pc = "sleep" /\ CycleCaptures = 1 /\ Len(CycleLines) = 2

----------------------------------------------------------------------------
(* C12 *)

\* The probe returned with a zero exit status, no marker and nothing but
\* blanks on stdout: `url` is the empty string and the function returns
EmptyOutput ==
  Returned /\ ~cyc.res[1].marker /\ cyc.res[1].zero /\ cyc.res[1].url = <<>>

\* The transition taken matches the class of the probe result (an uncaught
\* exception of appendFileSync aside)
MatchingTransition ==
  /\ CredentialInvalid =>
        /\ pc \in { "notifyInvalid", "exited" }
        /\ pc = "exited" => exitCode = <<1>>
        /\ CycleCaptures = 0 /\ CycleLines = <<>>
  /\ (Offline /\ ~Uncaught) =>
        pc = "sleep" /\ CycleLines = << OfflineLine >> /\ CycleCaptures = 0
  /\ (Live /\ ~Uncaught) =>
        /\ CycleLines # <<>> /\ CycleLines[1] = OnlineLine
        /\ \/ pc = "notifyOnline" /\ CycleCaptures = 0
           \/ /\ pc \in { "capture", "sleep" } /\ CycleCaptures = 1
              /\ captures[Len(captures)].url = cyc.res[1].url
              /\ captures[Len(captures)].url # <<>>
              /\ Head(captures[Len(captures)].url) # BLANK
              /\ captures[Len(captures)].url[Len(captures[Len(captures)].url)] # BLANK

\* C12: every probe result that has returned is exactly one of
\* CredentialInvalid (the marker, whatever the exit status), Offline (a
\* non-zero exit without the marker) and Live (a zero exit with a non-empty
\* trimmed stdout, which is the capture's url), and the supervisor takes the
\* matching transition.  A zero exit with blank output is none of the three.
C12_Classification ==
  Returned =>
     /\ CredentialInvalid \/ Offline \/ Live
     /\ ~(CredentialInvalid /\ Offline) /\ ~(CredentialInvalid /\ Live)
     /\ ~(Offline /\ Live)
     /\ MatchingTransition

\* What holds of every probe result: it is one of the three or blank output,
\* and the three lead where the claim says they do
ClassificationWithEmptyOutput ==
  Returned =>
     /\ CredentialInvalid \/ Offline \/ Live \/ EmptyOutput
     /\ MatchingTransition
     /\ EmptyOutput => (pc = "sleep" /\ CycleLines = <<>> /\ CycleCaptures = 0)

----------------------------------------------------------------------------
(* C13 *)

\* A cycle begins: from startup or from the sleep, with the prune pass first,
\* then the exit-file check, then the probe
CycleBeginsInOrder ==
  cycles' = cycles + 1 =>
     /\ pc \in { "startup", "sleep" }
     /\ IF cyc'.exitChecked
        THEN /\ logDir' = cleanOldLogs(logDir, now', cyc'.faults)
             /\ cyc'.probed = ~exitFile
             /\ exitFile => pc' = "exited"
        ELSE ~cyc'.probed /\ Uncaught'
     /\ probes' = IF cyc'.probed THEN probes + 1 ELSE probes

\* streamlink is started only as a cycle begins, and each earlier probe has
\* been followed by exactly one sleep, of INTERVAL seconds
OneSleepBetweenProbes ==
  probes' # probes =>
     /\ cycles' = cycles + 1 /\ probes' = probes + 1 /\ pc' = "probe"
     /\ sleeps = probes
     /\ pc = "sleep" =>
          now' - now = (IF envInterval # 0 THEN envInterval ELSE 55 * 1000)

\* The process exits on the exit-signal file only as a cycle begins; a step
\* from the wait for the probe, for the notification or for the capture is
\* the same step with the file and without it
ExitFileReadAtCycleStart ==
  /\ (cause' = "exitfile" /\ cause # "exitfile") =>
        (cycles' = cycles + 1 /\ exitFile /\ cyc'.exitChecked)
  /\ pc \in { "probe", "notifyOnline", "notifyInvalid", "capture" } =>
        (cycles' = cycles /\ cause' # "exitfile")
  /\ (pc = "sleep" /\ pc' # "sleep") => now' = timer[1]

\* The online line is written only for a Live probe, the online message is
\* sent only after that line, and the capture is spawned only after both
LiveStepsInOrder ==
  /\ (Len(watchLog') > Len(watchLog) /\ watchLog'[Len(watchLog')] = OnlineLine) =>
        (Live' /\ cyc.probed /\ CycleLines' = << OnlineLine >> /\ CycleCaptures = 0)
  /\ (Len(sends') > Len(sends) /\ sends'[Len(sends')] = ONLINE_MSG) =>
        (Live' /\ CycleLines' = << OnlineLine >> /\ captures' = captures)
  /\ captures' # captures =>
        /\ Live' /\ CycleLines' = << OnlineLine >>
        /\ Len(captures') = Len(captures) + 1 /\ cyc.capStart = Len(captures)
        /\ webhook = "valid" => (CycleSends' = << ONLINE_MSG >> /\ cyc'.sent # <<>>)

\* C13: in every cycle the prune pass comes first, then the exit-file check,
\* then the probe, then, for a Live probe only, the online line, the
\* notification and the capture; between two consecutive probes lies exactly
\* one sleep of the interval; and the exit-signal file is read only as a cycle
\* begins, never during the sleep or the capture.
C13_StepOrder ==
  [][ /\ CycleBeginsInOrder
      /\ OneSleepBetweenProbes
      /\ ExitFileReadAtCycleStart
      /\ LiveStepsInOrder ]_vars

\* The second cycle of a run found the exit-signal file after one probe, one
\* capture and one sleep, and pruned the expired file before it exited
C13_Witness ==
  /\ pc = "exited" /\ cause = "exitfile" /\ cycles = 2
  /\ probes = 1 /\ sleeps = 1 /\ Len(captures) = 1
  /\ cyc.faults = {} /\ Expired(logDir, now) = {} /\ DOMAIN logDir # Files

----------------------------------------------------------------------------
(* C14 *)

\* C14: once the exit-signal file is there while the supervisor waits for
\* the probe, for the notification, for the capture or for the timer, the
\* process eventually exits, and exits with code 0.  An exception of
\* readdirSync or appendFileSync in the cycle that finds the file, or an
\* outstanding probe that reports an invalid credential, ends it with code 1.
C14_ExitFileLeadsToExitZero ==
  (exitFile /\ pc \notin { "startup", "exited" })
     ~> (pc = "exited" /\ exitCode = <<0>>)

\* What holds whatever the file system does: once the exit-signal file is
\* there the process eventually exits; with code 0 when the next cycle
\* reaches its exit-file check, and with code 1 when the probe that was
\* outstanding reports an invalid credential or when an exception of the file
\* system goes uncaught.  A file that appears during the capture or the sleep
\* never leads to the exit for an invalid credential.
ExitFileLeadsToExit ==
  /\ (exitFile /\ pc \notin { "startup", "exited" })
        ~> /\ pc = "exited"
           /\ \/ exitCode = <<0>> /\ cause = "exitfile" /\ cyc.exitChecked
              \/ exitCode = <<1>> /\ cause = "credential" /\ CredentialInvalid
              \/ exitCode = <<1>> /\ Uncaught
  /\ []((exitFile /\ pc \in { "capture", "sleep" }) => [](cause # "credential"))

----------------------------------------------------------------------------
(* C15 *)

\* Normal operation: the exit-signal file is never there and no probe ever
\* reports an invalid credential
NormalOperation == [](~exitFile) /\ [](~CredentialInvalid)

\* C15: under normal operation the supervisor never stops: from every state
\* of a run that has begun n cycles it reaches the probe of cycle n + 1,
\* whatever the probes return and whatever the captures exit with (n below
\* the bound on the cycles of a run).  An exception of readdirSync or
\* appendFileSync that nothing catches stops it.
C15_NeverStops ==
  NormalOperation =>
     \A n \in 0..(MaxCycles - 1) :
        (userName /\ cycles = n) ~> (cycles = n + 1 /\ pc = "probe")

\* What holds whatever the file system does: the next probe is reached unless
\* an exception went uncaught
NeverStopsUnlessUncaught ==
  NormalOperation =>
     \A n \in 0..(MaxCycles - 1) :
        (userName /\ cycles = n) ~> ((cycles = n + 1 /\ pc = "probe") \/ Uncaught)

----------------------------------------------------------------------------
(* C16 *)

\* C16: with the default interval of 55 seconds, every capture of a run has
\* a download log of its own, which holds its diagnostics and no other
\* capture's: a later capture neither writes to the file of an earlier one
\* nor truncates it.  A capture that fails at once and a Live probe after the
\* sleep start two captures within one minute, and createWriteStream
\* truncates the file the two share.
C16_OwnDownloadLog ==
  envInterval = 0 =>
     \A i \in 1..Len(captures) : DownloadLog(captures[i].dl) = << i >>

\* What holds instead: the download log of a capture holds the diagnostics
\* of the latest capture that started in its minute, and of no other
DownloadLogOfLatest ==
  \A i \in 1..Len(captures) :
     LET same == { j \in 1..Len(captures) : captures[j].dl = captures[i].dl }
     IN  DownloadLog(captures[i].dl) = << CHOOSE j \in same : \A k \in same : k <= j >>

----------------------------------------------------------------------------
(* C17 *)

\* C17: when the first probe of a run reports an invalid credential, the
\* process notifies and exits with a non-zero code before the loop is
\* entered: no prune pass, no exit-file check, no watch-log line, no sleep and
\* no capture came before.
C17_StartupCredentialCheck ==
  (cycles = 1 /\ CredentialInvalid) =>
     /\ pc \in { "notifyInvalid", "exited" }
     /\ pc = "exited" => exitCode = <<1>>
     /\ ~cyc.exitChecked /\ logDir = StartDir
     /\ watchLog = <<>> /\ sleeps = 0 /\ captures = <<>>

\* C17, amended: the credential is first put to the test by the probe of the
\* first cycle, which has pruned the logs and found no exit-signal file.  When
\* that probe reports an invalid credential the process notifies (through a
\* usable webhook) and exits with code 1, with no watch-log line, no sleep and
\* no capture before.  A first cycle that finds the exit-signal file ends
\* the process with no probe and no notification at all, whatever the
\* credential.
C17_CredentialFirstTestedInLoop ==
  /\ probes > 0 => cycles > 0
  /\ (cycles = 1 /\ CredentialInvalid) =>
        /\ pc \in { "notifyInvalid", "exited" }
        /\ pc = "exited" => (exitCode = <<1>> /\ cause = "credential")
        /\ CycleSends = IF webhook = "valid" THEN << INVALID_MSG >> ELSE <<>>
        /\ cyc.exitChecked /\ ~cyc.sawExit
        /\ Expired(logDir, 0) \subseteq cyc.faults
        /\ watchLog = <<>> /\ sleeps = 0 /\ captures = <<>>
  /\ (cycles = 1 /\ cyc.sawExit) =>
        (pc = "exited" /\ probes = 0 /\ sends = <<>> /\ ~Returned)

\* The first probe of a run reported an invalid credential and the process
\* has notified and exited, after the prune pass of the first cycle deleted
\* the expired file
C17_Witness ==
  /\ cycles = 1 /\ CredentialInvalid /\ pc = "exited" /\ exitCode = <<1>>
  /\ webhook = "valid" /\ sends = << INVALID_MSG >> /\ cyc.sent # <<>>
  /\ DOMAIN logDir = Files \ {1} /\ cyc.exitChecked

----------------------------------------------------------------------------
(* C18 *)

\* C18: a probe that exits zero without the marker and with an empty or
\* blank stdout starts no capture, writes no watch-log line and sends no
\* notification: the cycle ends silently and the supervisor sleeps.
C18_SilentCycle ==
  (Returned /\ cyc.res[1].zero /\ ~cyc.res[1].marker /\ cyc.res[1].blank) =>
     /\ pc = "sleep" /\ exitCode = <<>> /\ timer = << now + INTERVAL_MS >>
     /\ CycleLines = <<>> /\ CycleCaptures = 0 /\ CycleSends = <<>>
     /\ inflight = {} /\ cyc.sent = <<>>

\* Two cycles of a run have completed and the watch log is still empty
C18_Witness ==
  /\ Returned /\ cyc.res[1].zero /\ ~cyc.res[1].marker /\ cyc.res[1].blank
  /\ cycles = 2 /\ sleeps = 2 /\ pc = "sleep" /\ watchLog = <<>>
  /\ webhook = "valid" /\ sends = <<>>

----------------------------------------------------------------------------
(* C19 *)

\* The online lines of the watch log
OnlineLines == SelectSeq(watchLog, LAMBDA l : l = OnlineLine)

\* Where notifications are sent, given whether the Live cycle at hand has sent
\* its own: one online message per Live cycle, after the online line and
\* before the spawn, which waits for the send to settle; one message for an
\* invalid credential; none for anything else
NotificationsWhere(liveSent) ==
  /\ \A i \in 1..Len(sends) : sends[i] \in { ONLINE_MSG, INVALID_MSG }
  /\ webhook # "valid" => sends = <<>>
  /\ Live =>
        /\ liveSent => (webhook = "valid" => CycleSends = << ONLINE_MSG >>)
        /\ CycleSends # <<>> => (CycleLines # <<>> /\ CycleLines[1] = OnlineLine)
        /\ pc = "notifyOnline" => (CycleCaptures = 0 /\ cyc.sent = <<>>)
        /\ (CycleCaptures > 0 /\ webhook = "valid") => cyc.sent # <<>>
  /\ CredentialInvalid => (webhook = "valid" => CycleSends = << INVALID_MSG >>)
  /\ (Returned /\ ~Live /\ ~CredentialInvalid) => CycleSends = <<>>
  /\ ~Returned => CycleSends = <<>>
  /\ webhook = "valid" =>
        Len(sends) = Len(OnlineLines) + (IF CredentialInvalid THEN 1 ELSE 0)

\* C19: notifications are sent only for a Live probe and for an invalid
\* credential; every Live cycle sends exactly one online notification (through
\* a usable webhook), after its online line and before its capture is
\* spawned; Offline cycles, capture completion, capture failure and the exit on
\* the exit-signal file send none.  A Live cycle whose online line cannot be
\* appended dies before it notifies.
C19_Notifications == NotificationsWhere(TRUE)

\* What holds whatever the file system does: the same, for the Live cycles
\* that did not die of an uncaught exception before the notification
NotificationsUnlessUncaught == NotificationsWhere(CycleLines # <<>>)

====
